---- MODULE Spec2Model ----
(***************************************************************************)
(* rumqttc: the pkid-tracking containers of ds.rs (OutgoingPublishBucket,  *)
(* PkidSet) and the v5 frame codec of codec.rs, as state machines.         *)
(*                                                                         *)
(* Option<T> is a sequence of length at most one: None is << >> and        *)
(* Some(x) is <<x>>.  Result<T, E> is a record [tag, val] with tag "Ok" or *)
(* "Err".  A Vec is a sequence; the Rust index i is the TLA+ index i + 1.  *)
(***************************************************************************)
EXTENDS Integers, Sequences, FiniteSets, TLC

\* ------------------------------------------------------------------ bounds
\* The limit passed to with_limit: the containers hold indices 0..MaxPkid.
MaxPkid == 2

\* `as u16` keeps the low 16 bits.
U16Range == 65536

\* Longest publish payload, in bytes.
MaxPayload == 2
\* Largest configured packet size ceiling.
SizeLimit == 5
\* Longest read or write buffer, in bytes.
MaxBuf == 8

VARIABLES
    max_pkid,   \* the argument of with_limit both containers were built with
    vec,        \* OutgoingPublishBucket.vec : Vec<Option<Publish>>
    set,        \* PkidSet.set : FixedBitSet, a sequence of bits
    op          \* the latest call: its name, argument and result, the receiver
                \* it was called on (pre), and for drain_into the caller's
                \* Vec<T> before (pre_sink) and after (sink) the call

VARIABLES
    max_incoming_size,  \* Codec.max_incoming_size : Option<usize>
    max_outgoing_size,  \* Codec.max_outgoing_size : Option<usize>
    dst,        \* the BytesMut that encode appends to
    src,        \* the BytesMut that decode reads from
    io          \* the latest codec call: its name, argument and result, and
                \* the buffer it was called with (pre)

ds_vars == <<max_pkid, vec, set, op>>
codec_vars == <<max_incoming_size, max_outgoing_size, dst, src, io>>
vars == <<ds_vars, codec_vars>>

\* ------------------------------------------------------------------ values
None == << >>
Some(x) == <<x>>
Ok(v) == [tag |-> "Ok", val |-> v]
Err(e) == [tag |-> "Err", val |-> e]
OutOfBounds(pkid) == [error |-> "OutOfBounds", pkid |-> pkid]

\* crate::Publish: opaque here except for its pkid.
Payloads == {"a", "b"}
Publishes == [pkid : 0..(MaxPkid + 1), payload : Payloads]
\* The pkids a caller may pass: every one within the limit and one beyond it.
Pkids == 0..(MaxPkid + 1)
\* The last_puback values a caller may pass.
LastPubacks == 0..(MaxPkid + 2)

\* The map arguments of the two drain_into methods (Request::Publish and
\* |pkid| Request::PubRel(..) at the call sites).
map_publish(publish) == [request |-> "Publish", body |-> publish]
map_pkid(pkid) == [request |-> "PubRel", body |-> pkid]

\* What the caller's sink may hold when drain_into is called.
SinkInputs == { << >>, <<map_pkid(0)>> }

\* ------------------------------------------------- OutgoingPublishBucket
bucket_with_limit(limit) == [i \in 1..(limit + 1) |-> None]

RECURSIVE count_some(_, _)
count_some(v, i) ==
    IF i > Len(v) THEN 0
    ELSE (IF v[i] # None THEN 1 ELSE 0) + count_some(v, i + 1)

\* Mutant: the length of the Vec, empty slots included.
bucket_len_all_slots(self) == Len(self)

bucket_len(self) == count_some(self, 1)

\* Mutant: a pkid past the end grows the table instead of being refused.
bucket_insert_grows(self, value) ==
    LET index == value.pkid IN
    IF index < Len(self)
    THEN [vec |-> [self EXCEPT ![index + 1] = Some(value)],
          ret |-> Ok(self[index + 1])]
    ELSE [vec |-> Append(self, Some(value)), ret |-> Ok(None)]

bucket_insert(self, value) ==
    LET index == value.pkid IN
    IF index < Len(self)
    THEN [vec |-> [self EXCEPT ![index + 1] = Some(value)],
          ret |-> Ok(self[index + 1])]
    ELSE [vec |-> self, ret |-> Err(OutOfBounds(value.pkid))]

\* Mutant: Vec::remove, which shifts the later slots down by one.
bucket_remove_shifts(self, pkid) ==
    LET index == pkid IN
    IF index < Len(self)
    THEN [vec |-> SubSeq(self, 1, index) \o SubSeq(self, index + 2, Len(self)),
          ret |-> Ok(self[index + 1])]
    ELSE [vec |-> self, ret |-> Err(OutOfBounds(pkid))]

bucket_remove(self, pkid) ==
    LET index == pkid IN
    IF index < Len(self)
    THEN [vec |-> [self EXCEPT ![index + 1] = None],
          ret |-> Ok(self[index + 1])]
    ELSE [vec |-> self, ret |-> Err(OutOfBounds(pkid))]

bucket_get(self, pkid) ==
    IF pkid < Len(self)
    THEN Ok(self[pkid + 1])
    ELSE Err(OutOfBounds(pkid))

\* The for loop of drain_into: every slot is taken, and a taken publish is
\* pushed only when its index is at least last_puback.
RECURSIVE drain_loop(_, _, _, _)
drain_loop(v, index, out, last_puback) ==
    IF index >= Len(v) THEN [vec |-> v, sink |-> out]
    ELSE LET opt_publish == v[index + 1]
             taken == [v EXCEPT ![index + 1] = None]
         IN  IF opt_publish # None /\ index >= last_puback
             THEN drain_loop(taken, index + 1,
                             Append(out, map_publish(opt_publish[1])), last_puback)
             ELSE drain_loop(taken, index + 1, out, last_puback)

\* Mutant: only the slots that are pushed are taken, and the Vec is not cleared.
bucket_drain_into_keeps(self, out, last_puback) ==
    [vec |-> [i \in 1..Len(self) |->
                 IF i - 1 >= last_puback THEN None ELSE self[i]],
     sink |-> drain_loop(self, 0, out, last_puback).sink]

\* Mutant: the sink is emptied before the publishes are pushed.
bucket_drain_into_resets(self, out, last_puback) ==
    [vec |-> SubSeq(self, 1, 0),
     sink |-> drain_loop(self, 0, << >>, last_puback).sink]

\* The loop, then self.vec.clear(): the Vec is left with no element.
bucket_drain_into(self, out, last_puback) ==
    LET looped == drain_loop(self, 0, out, last_puback)
    IN  [vec |-> SubSeq(looped.vec, 1, 0), sink |-> looped.sink]

\* ------------------------------------------------------------------ PkidSet
pkidset_with_limit(limit) == [i \in 1..(limit + 1) |-> FALSE]

RECURSIVE count_ones(_, _)
count_ones(bits, i) ==
    IF i > Len(bits) THEN 0
    ELSE (IF bits[i] THEN 1 ELSE 0) + count_ones(bits, i + 1)

pkidset_len(self) == count_ones(self, 1)

pkidset_contains(self, pkid) == pkid < Len(self) /\ self[pkid + 1]

pkidset_insert(self, pkid) ==
    LET index == pkid IN
    IF index >= Len(self)
    THEN [set |-> self, ret |-> Err(OutOfBounds(pkid))]
    ELSE [set |-> [self EXCEPT ![index + 1] = TRUE],
          ret |-> Ok(self[index + 1])]

\* Mutant: the bit is read after it was cleared.
pkidset_remove_reads_late(self, pkid) ==
    LET index == pkid IN
    IF index >= Len(self)
    THEN [set |-> self, ret |-> Err(OutOfBounds(pkid))]
    ELSE [set |-> [self EXCEPT ![index + 1] = FALSE],
          ret |-> Ok(FALSE)]

pkidset_remove(self, pkid) ==
    LET index == pkid IN
    IF index >= Len(self)
    THEN [set |-> self, ret |-> Err(OutOfBounds(pkid))]
    ELSE [set |-> [self EXCEPT ![index + 1] = FALSE],
          ret |-> Ok(self[index + 1])]

\* Mutant: clear drops the bits, as Vec::clear does.
pkidset_clear_truncates(self) == SubSeq(self, 1, 0)

\* FixedBitSet::clear zeroes every bit and keeps the length.
pkidset_clear(self) == [i \in 1..Len(self) |-> FALSE]

\* self.set.ones() yields the set bits by ascending index.
RECURSIVE ones_loop(_, _, _)
ones_loop(bits, index, out) ==
    IF index >= Len(bits) THEN out
    ELSE IF bits[index + 1]
         THEN ones_loop(bits, index + 1, Append(out, map_pkid(index % U16Range)))
         ELSE ones_loop(bits, index + 1, out)

\* Mutant: the bits are not cleared after the drain.
pkidset_drain_into_keeps(self, out) ==
    [set |-> self, sink |-> ones_loop(self, 0, out)]

pkidset_drain_into(self, out) ==
    [set |-> pkidset_clear(self), sink |-> ones_loop(self, 0, out)]

\* ------------------------------------------------------------------ actions
Call(name, arg, ret, pre) ==
    [name |-> name, arg |-> arg, ret |-> ret, pre |-> pre,
     pre_sink |-> << >>, sink |-> << >>]

Drain(name, arg, pre, pre_sink, out) ==
    [name |-> name, arg |-> arg, ret |-> Ok(None), pre |-> pre,
     pre_sink |-> pre_sink, sink |-> out]

Init ==
    /\ max_pkid \in 1..MaxPkid
    /\ vec = bucket_with_limit(max_pkid)
    /\ set = pkidset_with_limit(max_pkid)
    /\ op = Call("with_limit", max_pkid, Ok(None), << >>)
    /\ max_incoming_size = None
    /\ max_outgoing_size = None
    /\ dst = << >>
    /\ src = << >>
    /\ io = Call("new", 0, Ok(None), << >>)

Insert(value) ==
    LET r == bucket_insert(vec, value) IN
    /\ vec' = r.vec
    /\ op' = Call("insert", value, r.ret, vec)
    /\ UNCHANGED <<max_pkid, set, codec_vars>>

Remove(pkid) ==
    LET r == bucket_remove(vec, pkid) IN
    /\ vec' = r.vec
    /\ op' = Call("remove", pkid, r.ret, vec)
    /\ UNCHANGED <<max_pkid, set, codec_vars>>

Get(pkid) ==
    /\ op' = Call("get", pkid, bucket_get(vec, pkid), vec)
    /\ UNCHANGED <<max_pkid, vec, set, codec_vars>>

DrainInto(out, last_puback) ==
    LET r == bucket_drain_into(vec, out, last_puback) IN
    /\ vec' = r.vec
    /\ op' = Drain("drain_into", last_puback, vec, out, r.sink)
    /\ UNCHANGED <<max_pkid, set, codec_vars>>

SetInsert(pkid) ==
    LET r == pkidset_insert(set, pkid) IN
    /\ set' = r.set
    /\ op' = Call("set_insert", pkid, r.ret, set)
    /\ UNCHANGED <<max_pkid, vec, codec_vars>>

SetRemove(pkid) ==
    LET r == pkidset_remove(set, pkid) IN
    /\ set' = r.set
    /\ op' = Call("set_remove", pkid, r.ret, set)
    /\ UNCHANGED <<max_pkid, vec, codec_vars>>

SetDrainInto(out) ==
    LET r == pkidset_drain_into(set, out) IN
    /\ set' = r.set
    /\ op' = Drain("set_drain_into", 0, set, out, r.sink)
    /\ UNCHANGED <<max_pkid, vec, codec_vars>>

SetClear ==
    /\ set' = pkidset_clear(set)
    /\ op' = Call("set_clear", 0, Ok(None), set)
    /\ UNCHANGED <<max_pkid, vec, codec_vars>>

Next ==
    \/ \E value \in Publishes : Insert(value)
    \/ \E pkid \in Pkids : Remove(pkid)
    \/ \E pkid \in Pkids : Get(pkid)
    \/ \E out \in SinkInputs, last_puback \in LastPubacks : DrainInto(out, last_puback)
    \/ \E pkid \in Pkids : SetInsert(pkid)
    \/ \E pkid \in Pkids : SetRemove(pkid)
    \/ \E out \in SinkInputs : SetDrainInto(out)
    \/ SetClear

Spec == Init /\ [][Next]_vars

\* ------------------------------------------------- claims on the containers
\* The pkid a call was given.
pkid_of(call) == IF call.name = "insert" THEN call.arg.pkid ELSE call.arg
IsSome(result) == result.tag = "Ok" /\ result.val # None
\* The elements a drain appended to the sink.
Appended(call) == SubSeq(call.sink, Len(call.pre_sink) + 1, Len(call.sink))

\* map(value) for the occupied slots of v at indices lo..hi-1, ascending.
RECURSIVE occupied_between(_, _, _)
occupied_between(v, lo, hi) ==
    IF lo >= hi \/ lo >= Len(v) THEN << >>
    ELSE (IF v[lo + 1] # None THEN <<map_publish(v[lo + 1][1])>> ELSE << >>)
         \o occupied_between(v, lo + 1, hi)

\* C1: drain_into(sink, last_puback, map) appends map(value) for the occupied
\* slots in wraparound order: those at indices in [last_puback, end) by
\* ascending index, then those at indices in [0, last_puback).
C1_WraparoundOrder ==
    op.name = "drain_into" =>
        Appended(op) = occupied_between(op.pre, op.arg, Len(op.pre))
                       \o occupied_between(op.pre, 0, op.arg)

\* C2: drain_into loses no entry: every slot occupied before the call
\* contributes exactly one element, so the number of appended elements is
\* len() before the call.
C2_DrainLosesNoEntry ==
    op.name = "drain_into" =>
        /\ Len(Appended(op)) = bucket_len(op.pre)
        /\ \A i \in 1..Len(op.pre) :
              op.pre[i] # None =>
                  Cardinality({j \in 1..Len(Appended(op)) :
                      Appended(op)[j] = map_publish(op.pre[i][1])}) = 1

\* C3: the capacity is fixed at construction: in every reachable state insert,
\* remove and get with any pkid in 0..=max_pkid succeed.
C3_CapacityFixed ==
    \A pkid \in 0..max_pkid :
        /\ \A payload \in Payloads :
              bucket_insert(vec, [pkid |-> pkid, payload |-> payload]).ret.tag = "Ok"
        /\ bucket_remove(vec, pkid).ret.tag = "Ok"
        /\ bucket_get(vec, pkid).tag = "Ok"

\* C4: with pkid > max_pkid, insert, remove and get of the table and insert
\* and remove of the set return OutOfBounds(pkid) and leave the container,
\* and so len(), as it was.
C4_OutOfBoundsNoMutation ==
    /\ (op.name \in {"insert", "remove", "get"} /\ pkid_of(op) > max_pkid) =>
          /\ op.ret = Err(OutOfBounds(pkid_of(op)))
          /\ vec = op.pre
          /\ bucket_len(vec) = bucket_len(op.pre)
    /\ (op.name \in {"set_insert", "set_remove"} /\ pkid_of(op) > max_pkid) =>
          /\ op.ret = Err(OutOfBounds(pkid_of(op)))
          /\ set = op.pre
          /\ pkidset_len(set) = pkidset_len(op.pre)

C4_Witness ==
    /\ op.name = "insert"
    /\ pkid_of(op) > max_pkid
    /\ bucket_len(op.pre) > 0
    /\ pkidset_len(set) > 0

\* C5: for every pkid p within capacity, after insert of a publish with pkid p
\* get(p) returns that publish, a following remove(p) returns it too, and get(p)
\* after that returns empty.
C5_InsertGetRemove ==
    (op.name = "insert" /\ pkid_of(op) <= max_pkid) =>
        LET p == pkid_of(op)
            removed == bucket_remove(vec, p)
        IN  /\ bucket_get(vec, p) = Ok(Some(op.arg))
            /\ removed.ret = Ok(Some(op.arg))
            /\ bucket_get(removed.vec, p) = Ok(None)

\* C6: insert on an occupied slot returns the stored publish, stores the new
\* one and leaves len() unchanged; insert on an empty slot returns empty and
\* len() grows by one.
C6_InsertDetectsReuse ==
    (op.name = "insert" /\ pkid_of(op) <= max_pkid) =>
        LET p == pkid_of(op)
            before == bucket_get(op.pre, p)
        IN  IF IsSome(before)
            THEN /\ op.ret = before
                 /\ bucket_get(vec, p) = Ok(Some(op.arg))
                 /\ bucket_len(vec) = bucket_len(op.pre)
            ELSE /\ op.ret = Ok(None)
                 /\ bucket_get(vec, p) = Ok(Some(op.arg))
                 /\ bucket_len(vec) = bucket_len(op.pre) + 1

\* C7: len() of the table is the number of pkids whose slot holds a publish,
\* len() of the set is the number of pkids in it, and remove of an empty slot
\* or unset bit leaves len() unchanged.
C7_LenCountsOccupied ==
    /\ bucket_len(vec) = Cardinality({p \in Pkids : IsSome(bucket_get(vec, p))})
    /\ pkidset_len(set) = Cardinality({p \in Pkids : pkidset_contains(set, p)})
    /\ (op.name = "remove" /\ op.ret.tag = "Ok" /\ op.ret.val = None) =>
          bucket_len(vec) = bucket_len(op.pre)
    /\ (op.name = "set_remove" /\ op.ret.tag = "Ok" /\ op.ret.val = FALSE) =>
          pkidset_len(set) = pkidset_len(op.pre)

C7_Witness ==
    /\ op.name = "remove"
    /\ op.ret.tag = "Ok"
    /\ op.ret.val = None
    /\ bucket_len(vec) > 1
    /\ pkidset_len(set) > 1

\* C8: after drain_into the table holds no occupied slot and len() is 0,
\* whatever was occupied before and whatever last_puback is.
C8_DrainEmpties ==
    op.name = "drain_into" =>
        /\ bucket_len(vec) = 0
        /\ \A p \in Pkids : ~IsSome(bucket_get(vec, p))

C8_Witness ==
    /\ op.name = "drain_into"
    /\ bucket_len(op.pre) > 1
    /\ op.pre[1] # None
    /\ op.arg > 0

\* C13: drain_into of the set appends map(pkid) for every set bit, each once,
\* in strictly ascending pkid order, and leaves the set empty.
C13_SetDrainAscending ==
    op.name = "set_drain_into" =>
        LET out == Appended(op) IN
        /\ \A j \in 1..Len(out) : out[j] = map_pkid(out[j].body)
        /\ \A j \in 1..(Len(out) - 1) : out[j].body < out[j + 1].body
        /\ {out[j].body : j \in 1..Len(out)}
               = {p \in Pkids : pkidset_contains(op.pre, p)}
        /\ \A p \in Pkids : ~pkidset_contains(set, p)
        /\ pkidset_len(set) = 0

C13_Witness ==
    /\ op.name = "set_drain_into"
    /\ pkidset_len(op.pre) > 1
    /\ Len(op.pre_sink) > 0

\* C14: for p within capacity, insert(p) returns whether p was in the set and
\* leaves it in; remove(p) returns whether p was in the set and leaves it
\* out; so a second insert returns true and a second remove returns false.
C14_SetInsertRemove ==
    /\ (op.name = "set_insert" /\ pkid_of(op) <= max_pkid) =>
          /\ op.ret.tag = "Ok"
          /\ op.ret.val = pkidset_contains(op.pre, pkid_of(op))
          /\ pkidset_contains(set, pkid_of(op))
          /\ pkidset_insert(set, pkid_of(op)).ret.val = TRUE
    /\ (op.name = "set_remove" /\ pkid_of(op) <= max_pkid) =>
          /\ op.ret.tag = "Ok"
          /\ op.ret.val = pkidset_contains(op.pre, pkid_of(op))
          /\ ~pkidset_contains(set, pkid_of(op))
          /\ pkidset_remove(set, pkid_of(op)).ret.val = FALSE

C14_Witness ==
    /\ op.name = "set_remove"
    /\ pkid_of(op) <= max_pkid
    /\ op.ret.tag = "Ok"
    /\ op.ret.val = TRUE
    /\ pkidset_len(set) > 0

\* C17: a successful insert of a publish with pkid p, or remove(p), changes
\* slot p only: every other slot holds what it held before the call.
C17_OnlySlotChanges ==
    (op.name \in {"insert", "remove"} /\ op.ret.tag = "Ok") =>
        /\ Len(vec) = Len(op.pre)
        /\ \A q \in 0..(Len(op.pre) - 1) :
              q # pkid_of(op) => vec[q + 1] = op.pre[q + 1]

C17_Witness ==
    /\ op.name = "remove"
    /\ op.ret.tag = "Ok"
    /\ op.ret.val # None
    /\ pkid_of(op) = 0
    /\ bucket_len(vec) > 0

\* C19: the set keeps its capacity across drain_into and clear: afterwards
\* insert(p) succeeds and returns false for every p within the capacity
\* chosen at construction.
C19_SetKeepsCapacity ==
    op.name \in {"set_drain_into", "set_clear"} =>
        \A p \in 0..max_pkid :
            /\ pkidset_insert(set, p).ret.tag = "Ok"
            /\ pkidset_insert(set, p).ret.val = FALSE

C19_Witness ==
    /\ op.name = "set_drain_into"
    /\ pkidset_len(op.pre) > 0
    /\ max_pkid > 0

\* C20: drain_into of the table and of the set only append: what the sink
\* held before the call is a prefix of what it holds after.
C20_SinkPrefixKept ==
    op.name \in {"drain_into", "set_drain_into"} =>
        /\ Len(op.sink) >= Len(op.pre_sink)
        /\ SubSeq(op.sink, 1, Len(op.pre_sink)) = op.pre_sink

C20_Witness ==
    /\ op.name = "drain_into"
    /\ Len(op.pre_sink) > 0
    /\ Len(op.sink) > Len(op.pre_sink)

\* ------------------------------------ From<Vec<Option<Publish>>> for the table
\* The sequences a caller may rebuild the table from: every Vec of at most
\* MaxPkid + 1 optional publishes.  from() does not look at the pkids, so an
\* entry need not sit at the index of its pkid.
FromEntries == {None,
                Some([pkid |-> 0, payload |-> "a"]),
                Some([pkid |-> 1, payload |-> "b"])}
FromInputs == UNION {[1..n -> FromEntries] : n \in 0..(MaxPkid + 1)}

\* Mutant: only the present entries are kept.
bucket_from_compacts(input) == SelectSeq(input, LAMBDA entry : entry # None)

bucket_from(input) == input

\* The table is rebuilt by from(); the set is built by with_limit(0).
InitFrom ==
    /\ max_pkid = 0
    /\ \E input \in FromInputs :
          /\ vec = bucket_from(input)
          /\ op = Call("from", input, Ok(None), << >>)
    /\ set = pkidset_with_limit(max_pkid)
    /\ max_incoming_size = None
    /\ max_outgoing_size = None
    /\ dst = << >>
    /\ src = << >>
    /\ io = Call("new", 0, Ok(None), << >>)

SpecFrom == InitFrom /\ [][Next]_vars

\* C16: a table built from a sequence of optional publishes reports len()
\* equal to the number of present entries of the sequence, and get(i) returns
\* the i-th entry for every index i of the sequence.
C16_FromVec ==
    op.name = "from" =>
        /\ bucket_len(vec) = Cardinality({i \in 1..Len(op.arg) : op.arg[i] # None})
        /\ \A i \in 0..(Len(op.arg) - 1) :
              /\ bucket_get(vec, i).tag = "Ok"
              /\ bucket_get(vec, i).val = op.arg[i + 1]

C16_Witness ==
    /\ op.name = "from"
    /\ Len(op.arg) > 1
    /\ op.arg[1] = None
    /\ op.arg[2] # None

\* ------------------------------------------------------------ Packet wire
\* Packet::write and Packet::read are not part of codec.rs; they follow the
\* framing the codec relies on: a type byte, the remaining length as an MQTT
\* variable-length integer, then the body (pkid, payload).
PublishType == 48

PayloadByte == 7
Payload(n) == [i \in 1..n |-> PayloadByte]
Packets == [pkid : {1, 2}, payload : {Payload(n) : n \in 0..MaxPayload}]

\* The ceilings a codec may be configured with.
OptSizes == {None} \cup {Some(n) : n \in (SizeLimit - 2)..SizeLimit}

OutgoingPacketTooLarge(pkt_size, max) ==
    [error |-> "OutgoingPacketTooLarge", pkt_size |-> pkt_size, max |-> max]
IncomingPacketTooLarge(pkt_size, max) ==
    [error |-> "IncomingPacketTooLarge", pkt_size |-> pkt_size, max |-> max]
InsufficientBytes == [error |-> "InsufficientBytes", pkt_size |-> 0, max |-> 0]

RECURSIVE write_remaining_length(_)
write_remaining_length(len) ==
    IF len < 128 THEN <<len>>
    ELSE <<(len % 128) + 128>> \o write_remaining_length(len \div 128)

Packet_len(item) == 2 + Len(item.payload)

Packet_bytes(item) ==
    <<PublishType>> \o write_remaining_length(Packet_len(item))
        \o <<item.pkid \div 256, item.pkid % 256>> \o item.payload

Packet_size(item) ==
    1 + Len(write_remaining_length(Packet_len(item))) + Packet_len(item)

\* The size is checked before any byte is written.
Packet_write(item, buffer, max_size) ==
    IF max_size # None /\ Packet_size(item) > max_size[1]
    THEN [buf |-> buffer,
          ret |-> Err(OutgoingPacketTooLarge(Packet_size(item), max_size[1]))]
    ELSE [buf |-> buffer \o Packet_bytes(item), ret |-> Ok(Packet_size(item))]

\* The variable-length integer starting at stream[i]: [len, next] with next
\* the index after it, or next = 0 when the stream ends inside it.
RECURSIVE read_remaining_length(_, _)
read_remaining_length(stream, i) ==
    IF i > Len(stream) THEN [len |-> 0, next |-> 0]
    ELSE IF stream[i] < 128 THEN [len |-> stream[i], next |-> i + 1]
    ELSE LET rest == read_remaining_length(stream, i + 1)
         IN  [len |-> (stream[i] - 128) + 128 * rest.len, next |-> rest.next]

\* Reads one packet from the front of the stream.  Nothing is consumed unless
\* a whole packet is there.
Packet_read(stream, max_size) ==
    LET header == read_remaining_length(stream, 2)
        body == header.next
    IN  IF header.next = 0
        THEN [buf |-> stream, ret |-> Err(InsufficientBytes)]
        ELSE IF max_size # None /\ header.len > max_size[1]
        THEN [buf |-> stream,
              ret |-> Err(IncomingPacketTooLarge(header.len, max_size[1]))]
        ELSE IF Len(stream) < body - 1 + header.len
        THEN [buf |-> stream, ret |-> Err(InsufficientBytes)]
        ELSE [buf |-> SubSeq(stream, body + header.len, Len(stream)),
              ret |-> Ok([pkid |-> stream[body] * 256 + stream[body + 1],
                          payload |-> SubSeq(stream, body + 2,
                                             body + header.len - 1)])]

\* -------------------------------------------------------------------- Codec
\* Mutant: the packet is parsed from a copy; the stream is not advanced.
decode_peeks(self, stream) ==
    IF Len(stream) = 0
    THEN [src |-> stream, ret |-> Ok(None)]
    ELSE LET read == Packet_read(stream, self.max_incoming_size)
         IN  IF read.ret.tag = "Err"
             THEN [src |-> stream, ret |-> read.ret]
             ELSE [src |-> stream, ret |-> Ok(Some(read.ret.val))]

\* Mutant: every error of the reader is reported as "no packet yet".
decode_errors_as_none(self, stream) ==
    IF Len(stream) = 0
    THEN [src |-> stream, ret |-> Ok(None)]
    ELSE LET read == Packet_read(stream, self.max_incoming_size)
         IN  IF read.ret.tag = "Err"
             THEN [src |-> read.buf, ret |-> Ok(None)]
             ELSE [src |-> read.buf, ret |-> Ok(Some(read.ret.val))]

\* Mutant: the reader is called on an empty stream too.
decode_no_empty_check(self, stream) ==
    LET read == Packet_read(stream, self.max_incoming_size)
    IN  IF read.ret.tag = "Err"
        THEN [src |-> read.buf, ret |-> read.ret]
        ELSE [src |-> read.buf, ret |-> Ok(Some(read.ret.val))]

decode(self, stream) ==
    IF Len(stream) = 0
    THEN [src |-> stream, ret |-> Ok(None)]
    ELSE LET read == Packet_read(stream, self.max_incoming_size)
         IN  IF read.ret.tag = "Err"
             THEN [src |-> read.buf, ret |-> read.ret]
             ELSE [src |-> read.buf, ret |-> Ok(Some(read.ret.val))]

\* Mutant: the incoming ceiling is applied to outgoing packets.
encode_incoming_limit(self, item, buffer) ==
    LET written == Packet_write(item, buffer, self.max_incoming_size)
    IN  IF written.ret.tag = "Err"
        THEN [dst |-> written.buf, ret |-> written.ret]
        ELSE [dst |-> written.buf, ret |-> Ok(None)]

encode(self, item, buffer) ==
    LET written == Packet_write(item, buffer, self.max_outgoing_size)
    IN  IF written.ret.tag = "Err"
        THEN [dst |-> written.buf, ret |-> written.ret]
        ELSE [dst |-> written.buf, ret |-> Ok(None)]

Codec == [max_incoming_size |-> max_incoming_size,
          max_outgoing_size |-> max_outgoing_size]

InitCodec ==
    /\ max_pkid = 0
    /\ vec = bucket_with_limit(max_pkid)
    /\ set = pkidset_with_limit(max_pkid)
    /\ op = Call("with_limit", max_pkid, Ok(None), << >>)
    /\ max_incoming_size \in OptSizes
    /\ max_outgoing_size \in OptSizes
    /\ dst = << >>
    /\ src = << >>
    /\ io = Call("new", 0, Ok(None), << >>)

Encode(item) ==
    LET r == encode(Codec, item, dst) IN
    /\ Len(r.dst) <= MaxBuf
    /\ dst' = r.dst
    /\ io' = Call("encode", item, r.ret, dst)
    /\ UNCHANGED <<ds_vars, max_incoming_size, max_outgoing_size, src>>

Decode ==
    LET r == decode(Codec, src) IN
    /\ src' = r.src
    /\ io' = Call("decode", 0, r.ret, src)
    /\ UNCHANGED <<ds_vars, max_incoming_size, max_outgoing_size, dst>>

\* The transport: the next n written bytes arrive in the read buffer.
Transfer(n) ==
    /\ n <= Len(dst)
    /\ Len(src) + n <= MaxBuf
    /\ src' = src \o SubSeq(dst, 1, n)
    /\ dst' = SubSeq(dst, n + 1, Len(dst))
    /\ io' = Call("transfer", n, Ok(None), src)
    /\ UNCHANGED <<ds_vars, max_incoming_size, max_outgoing_size>>

NextCodec ==
    \/ \E item \in Packets : Encode(item)
    \/ Decode
    \/ \E n \in 1..MaxBuf : Transfer(n)

SpecCodec == InitCodec /\ [][NextCodec]_vars

\* ------------------------------------------------------ claims on the codec
\* The buffer starts with the bytes of a whole packet.
HoldsPacket(buffer) ==
    \E item \in Packets :
        /\ Len(Packet_bytes(item)) <= Len(buffer)
        /\ SubSeq(buffer, 1, Len(Packet_bytes(item))) = Packet_bytes(item)

\* C9: encode of a packet whose serialized size exceeds max_outgoing_size
\* fails with OutgoingPacketTooLarge carrying that size and the max, and
\* leaves the buffer as it was; a packet within the limit is appended in full.
C9_EncodeSizeCheck ==
    io.name = "encode" =>
        LET bytes == Packet_bytes(io.arg) IN
        IF max_outgoing_size # None /\ Len(bytes) > max_outgoing_size[1]
        THEN /\ io.ret = Err(OutgoingPacketTooLarge(Len(bytes), max_outgoing_size[1]))
             /\ dst = io.pre
        ELSE /\ io.ret.tag = "Ok"
             /\ dst = io.pre \o bytes

C9_Witness ==
    /\ io.name = "encode"
    /\ io.ret.tag = "Err"
    /\ Len(io.pre) > 0
    /\ dst = io.pre

\* C10: decode on a non-empty buffer that holds less than one whole packet
\* returns Ok(None) and leaves the buffer unchanged.
C10_IncompleteIsNone ==
    (io.name = "decode" /\ Len(io.pre) > 0 /\ ~HoldsPacket(io.pre)) =>
        /\ io.ret.tag = "Ok"
        /\ io.ret.val = None
        /\ src = io.pre

\* The packets whose encoding into an empty buffer succeeds and yields buffer.
EncodedAs(buffer) ==
    {item \in Packets :
        LET e == encode(Codec, item, << >>)
        IN  e.ret.tag = "Ok" /\ e.dst = buffer}

\* C11 as claimed: for every packet and every codec configuration, if encode
\* into an empty buffer succeeds, decode of that buffer returns an equal
\* packet and consumes exactly the encoded bytes.
C11_RoundTripAnyConfig ==
    io.name = "decode" =>
        \A item \in EncodedAs(io.pre) :
            /\ io.ret.tag = "Ok"
            /\ io.ret.val = Some(item)
            /\ src = << >>

\* C11 amended: the round trip holds whenever, in addition, the packet's
\* remaining length does not exceed max_incoming_size.
C11_RoundTripWithinIncoming ==
    io.name = "decode" =>
        \A item \in EncodedAs(io.pre) :
            (max_incoming_size = None \/ Packet_len(item) <= max_incoming_size[1]) =>
                /\ io.ret.tag = "Ok"
                /\ io.ret.val = Some(item)
                /\ src = << >>

C11_Witness ==
    /\ io.name = "decode"
    /\ max_incoming_size # None
    /\ max_outgoing_size # None
    /\ \E item \in EncodedAs(io.pre) :
          /\ Len(item.payload) > 0
          /\ io.ret.tag = "Ok"
          /\ io.ret.val = Some(item)

\* The remaining length the packet at the front of the buffer declares: the
\* byte after the type byte (every length of the model is below 128 and
\* takes one byte).  The buffer starts at a packet boundary, since decode
\* consumes whole packets only.
DeclaresLength(buffer) == Len(buffer) >= 2
DeclaredLength(buffer) == buffer[2]

\* C12: decode of a buffer whose next packet declares a remaining length
\* greater than max_incoming_size fails with IncomingPacketTooLarge carrying
\* the packet size and the max; it returns neither a packet nor Ok(None).
C12_IncomingTooLarge ==
    (/\ io.name = "decode"
     /\ DeclaresLength(io.pre)
     /\ max_incoming_size # None
     /\ DeclaredLength(io.pre) > max_incoming_size[1]) =>
        /\ io.ret.tag = "Err"
        /\ io.ret.val = IncomingPacketTooLarge(DeclaredLength(io.pre),
                                               max_incoming_size[1])

C12_Witness ==
    /\ io.name = "decode"
    /\ DeclaresLength(io.pre)
    /\ max_incoming_size # None
    /\ DeclaredLength(io.pre) > max_incoming_size[1]
    /\ Len(io.pre) < 2 + DeclaredLength(io.pre)

\* C15: decode on an empty buffer returns Ok(None) and consumes nothing, for
\* every codec configuration.
C15_EmptyIsNone ==
    (io.name = "decode" /\ Len(io.pre) = 0) =>
        /\ io.ret.tag = "Ok"
        /\ io.ret.val = None
        /\ src = io.pre

C15_Witness ==
    /\ io.name = "decode"
    /\ Len(io.pre) = 0
    /\ max_incoming_size # None
    /\ Len(dst) > 0

\* C18: the outcome of encode does not depend on max_incoming_size and the
\* outcome of decode does not depend on max_outgoing_size; with a ceiling of
\* None the matching too-large error is never returned.
C18_CeilingsIndependent ==
    /\ \A other \in OptSizes, item \in Packets :
          encode([Codec EXCEPT !.max_incoming_size = other], item, dst)
              = encode(Codec, item, dst)
    /\ \A other \in OptSizes :
          decode([Codec EXCEPT !.max_outgoing_size = other], src)
              = decode(Codec, src)
    /\ (io.name = "encode" /\ max_outgoing_size = None) => io.ret.tag = "Ok"
    /\ (io.name = "decode" /\ max_incoming_size = None /\ io.ret.tag = "Err") =>
          io.ret.val.error # "IncomingPacketTooLarge"

C18_Witness ==
    /\ io.name = "encode"
    /\ io.ret.tag = "Err"
    /\ max_incoming_size = None
    /\ Len(src) > 0

====
